---- MODULE Spec2Model ----
(***************************************************************************)
(* Model of the text summarization tool: the segmenter chunk_text, the     *)
(* backend invoker summarize_with_ollama, the orchestrator summarize       *)
(* (src/summarization(2).py and src/gui.py) and the front end              *)
(* SummarizationApp of src/gui.py.                                         *)
(*                                                                         *)
(* A Python str is a sequence of one-character strings.                    *)
(***************************************************************************)
EXTENDS Integers, Sequences, FiniteSets, TLC

\* ------------------------------------------------------------------ bounds
\* Longest document text explored by Spec.
MaxLen == 5
\* Largest character budget (max_chars) explored by Spec.
MaxBudget == 3
\* Longest captured output stream of the backend process explored by Spec.
MaxOut == 2

\* Most runs of run_summarization explored by GuiSpec.
MaxRuns == 3
\* The budget chunk_text gets in GuiSpec: its default max_chars, 20000 in the
\* source, scaled down to the texts of the model's files.
GuiMaxChars == 1

\* ------------------------------------------------------------- characters
NL == "\n"
SP == " "
\* Characters of a document: a letter and the line separator.
TextChars == {"a", NL}
\* Characters of a backend output stream: a letter and a whitespace.
OutChars == {"x", SP}
\* str.strip() without arguments removes these (the model's whitespace).
Whitespace == {SP, NL}

StringsUpTo(chars, n) == UNION {[1..k -> chars] : k \in 0..n}

Texts == StringsUpTo(TextChars, MaxLen)
Streams == StringsUpTo(OutChars, MaxOut)
Budgets == 1..MaxBudget

\* ---------------------------------------------------------- str functions
\* "\n".join(parts) and "\n\n".join(parts): sep.join(parts)
RECURSIVE Join(_, _)
Join(parts, sep) ==
  IF Len(parts) = 0 THEN <<>>
  ELSE IF Len(parts) = 1 THEN parts[1]
  ELSE parts[1] \o sep \o Join(Tail(parts), sep)

\* Index of the first "\n" of s at or after position i, or 0.
RECURSIVE FindNL(_, _)
FindNL(s, i) ==
  IF i > Len(s) THEN 0
  ELSE IF s[i] = NL THEN i
  ELSE FindNL(s, i + 1)

\* text.split("\n"): always at least one element, "" for the empty text.
RECURSIVE Split(_)
Split(s) ==
  LET k == FindNL(s, 1) IN
  IF k = 0 THEN <<s>>
  ELSE <<SubSeq(s, 1, k - 1)>> \o Split(SubSeq(s, k + 1, Len(s)))

RECURSIVE LStrip(_)
LStrip(s) ==
  IF Len(s) > 0 /\ s[1] \in Whitespace THEN LStrip(Tail(s)) ELSE s

RECURSIVE RStrip(_)
RStrip(s) ==
  IF Len(s) > 0 /\ s[Len(s)] \in Whitespace
  THEN RStrip(SubSeq(s, 1, Len(s) - 1)) ELSE s

\* str.strip()
Strip(s) == RStrip(LStrip(s))

\* ------------------------------------------------------------- chunk_text
\* What the mutated loop body does with the flushed line: it is lost.
ChunkFlushDropsLine(st, p) ==
  [chunks |-> Append(st.chunks, Join(st.current, <<NL>>)),
   current |-> <<>>,
   count |-> 0]

\* if-branch of the loop body: close the running chunk, restart with p.
ChunkFlush(st, p) ==
  [chunks |-> Append(st.chunks, Join(st.current, <<NL>>)),
   current |-> <<p>>,
   count |-> Len(p)]

\* else-branch of the loop body: p joins the running chunk.
ChunkAppend(st, p) ==
  [chunks |-> st.chunks,
   current |-> Append(st.current, p),
   count |-> st.count + Len(p)]

\* One iteration of "for p in paras".
ChunkStep(st, p, max_chars) ==
  IF st.count + Len(p) > max_chars /\ st.current # <<>>
  THEN ChunkFlush(st, p)
  ELSE ChunkAppend(st, p)

RECURSIVE ChunkLoop(_, _, _)
ChunkLoop(st, paras, max_chars) ==
  IF paras = <<>> THEN st
  ELSE ChunkLoop(ChunkStep(st, Head(paras), max_chars), Tail(paras), max_chars)

\* chunk_text(text, max_chars)
chunk_text(text, max_chars) ==
  LET st == ChunkLoop([chunks |-> <<>>, current |-> <<>>, count |-> 0],
                      Split(text), max_chars)
  IN IF st.current # <<>>
     THEN Append(st.chunks, Join(st.current, <<NL>>))
     ELSE st.chunks

\* -------------------------------------------------- summarize_with_ollama
\* The value returned for a finished process (stdout, stderr captured as text).
summarize_with_ollama(stdout, stderr) ==
  IF stdout # <<>> THEN Strip(stdout) ELSE Strip(stderr)

\* -------------------------------------------------------------- summarize
\* The separator of the final join.
Separator == <<NL, NL>>

\* The locals of one call of summarize(text, model, update_callback), with
\* what it has done so far:
\*   progress  the (idx, len(chunks)) pairs the callback was called with,
\*   invoked   the idx of every call of summarize_with_ollama, in order,
\*   calls     for every returned call, the segment passed and the output,
\*   result    <<>> while nothing is returned, <<s>> once s is returned.
NewRun(text, max_chars, has_callback) ==
  [pc |-> "start", text |-> text, max_chars |-> max_chars,
   has_callback |-> has_callback,
   chunks |-> <<>>, idx |-> 0, summaries |-> <<>>,
   progress |-> <<>>, invoked |-> <<>>, calls |-> <<>>,
   error |-> "none", result |-> <<>>]

\* chunks = chunk_text(text); summaries = []
SummarizeChunk(r) ==
  [r EXCEPT !.chunks = chunk_text(r.text, r.max_chars), !.pc = "loop"]

HasNext(r) == r.pc = "loop" /\ r.idx < Len(r.chunks)

\* Next iteration, update_callback is None: nothing is reported.
NoCallback(r) == [r EXCEPT !.idx = @ + 1, !.pc = "call"]

\* Mutation of Notify: the part number is counted from 0.
NotifyZeroBased(r) ==
  [r EXCEPT !.idx = @ + 1,
            !.progress = Append(@, <<r.idx, Len(r.chunks)>>),
            !.pc = "call"]

\* Next iteration, update_callback(f"Summarizing part {idx}/{len(chunks)}...")
\* returns.
Notify(r) ==
  [r EXCEPT !.idx = @ + 1,
            !.progress = Append(@, <<r.idx + 1, Len(r.chunks)>>),
            !.pc = "call"]

\* Next iteration, update_callback(...) raises: nothing in summarize catches it.
NotifyRaises(r) ==
  [r EXCEPT !.idx = @ + 1,
            !.progress = Append(@, <<r.idx + 1, Len(r.chunks)>>),
            !.pc = "raised", !.error = "callback"]

\* summarize_with_ollama(chunk, model) is called and the process starts.
InvokeStart(r) ==
  [r EXCEPT !.invoked = Append(@, r.idx), !.pc = "invoking"]

\* subprocess.run returns: the process has ended.
InvokeExit(r) == [r EXCEPT !.pc = "exited"]

\* Mutation of InvokeFails: the failed segment is skipped and the loop goes on.
InvokeFailsSkips(r) ==
  [r EXCEPT !.invoked = Append(@, r.idx), !.pc = "loop", !.error = "start"]

\* summarize_with_ollama(chunk, model) is called and subprocess.run raises
\* (the executable is missing): the exception leaves summarize.
InvokeFails(r) ==
  [r EXCEPT !.invoked = Append(@, r.idx), !.pc = "raised", !.error = "start"]

\* Mutation of InvokeReturn: summaries.insert(0, s)
InvokeReturnPrepends(r, s) ==
  [r EXCEPT !.summaries = <<s>> \o @,
            !.calls = Append(@, [segment |-> r.chunks[r.idx], output |-> s]),
            !.pc = "loop"]

\* s = summarize_with_ollama(chunk, model) returns s; summaries.append(s)
InvokeReturn(r, s) ==
  [r EXCEPT !.summaries = Append(@, s),
            !.calls = Append(@, [segment |-> r.chunks[r.idx], output |-> s]),
            !.pc = "loop"]

\* return "\n\n".join(summaries)
SummarizeReturn(r) ==
  [r EXCEPT !.result = <<Join(r.summaries, Separator)>>, !.pc = "done"]

\* ------------------------------------------------------------------ state
VARIABLES
  run,   \* the call of summarize under way (Spec)
  proc,  \* <<>>, or <<p>> while summarize_with_ollama holds the finished
         \* process p and the output it is about to return (Spec)
  \* SummarizationApp (GuiSpec)
  window_exists,     \* winfo_exists(): the window is not destroyed
  file_path,         \* self.file_path: "" (None) or the selected file
  summary_result,    \* self.summary_result: <<>> (None) or <<s>>
  summarize_button,  \* state of self.summarize_button
  browse_button,     \* state of self.browse_button
  export_button,     \* state of self.export_button
  status_label,      \* text of self.status_label
  workers,           \* the run_summarization threads started so far
  after_queue,       \* callbacks given to self.after(0, ...), not yet run
  exported           \* <<>> or <<e>>, e what export_summary wrote last

pipeline_vars == <<run, proc>>
gui_vars == <<window_exists, file_path, summary_result, summarize_button,
              browse_button, export_button, status_label, workers,
              after_queue, exported>>
vars == <<run, proc, window_exists, file_path, summary_result,
          summarize_button, browse_button, export_button, status_label,
          workers, after_queue, exported>>

\* The front end as __init__ and create_widgets leave it.
GuiStart ==
  /\ window_exists = TRUE
  /\ file_path = ""
  /\ summary_result = <<>>
  /\ summarize_button = "normal"
  /\ browse_button = "normal"
  /\ export_button = "disabled"
  /\ status_label = "Ready"
  /\ workers = <<>>
  /\ after_queue = <<>>
  /\ exported = <<>>

\* ------------------------------------------------ Spec: one pipeline run
Init ==
  /\ run \in {NewRun(t, m, cb) : t \in Texts, m \in Budgets, cb \in BOOLEAN}
  /\ proc = <<>>
  /\ GuiStart

Chunk ==
  /\ run.pc = "start"
  /\ run' = SummarizeChunk(run)
  /\ UNCHANGED <<proc, gui_vars>>

Progress ==
  /\ HasNext(run)
  /\ IF run.has_callback
     THEN run' \in {Notify(run), NotifyRaises(run)}
     ELSE run' = NoCallback(run)
  /\ UNCHANGED <<proc, gui_vars>>

BackendStart ==
  /\ run.pc = "call"
  /\ run' = InvokeStart(run)
  /\ UNCHANGED <<proc, gui_vars>>

BackendStartFails ==
  /\ run.pc = "call"
  /\ run' = InvokeFails(run)
  /\ UNCHANGED <<proc, gui_vars>>

BackendExit ==
  /\ run.pc = "invoking"
  /\ \E out \in Streams, err \in Streams, rc \in {0, 1} :
       proc' = <<[stdout |-> out, stderr |-> err, returncode |-> rc,
                  output |-> summarize_with_ollama(out, err)]>>
  /\ run' = InvokeExit(run)
  /\ UNCHANGED gui_vars

BackendReturn ==
  /\ run.pc = "exited"
  /\ run' = InvokeReturn(run, proc[1].output)
  /\ proc' = <<>>
  /\ UNCHANGED gui_vars

Return ==
  /\ run.pc = "loop"
  /\ ~HasNext(run)
  /\ run' = SummarizeReturn(run)
  /\ UNCHANGED <<proc, gui_vars>>

Next ==
  \/ Chunk
  \/ Progress
  \/ BackendStart
  \/ BackendStartFails
  \/ BackendExit
  \/ BackendReturn
  \/ Return

Spec == Init /\ [][Next]_vars

\* ------------------------------------------------ GuiSpec: the front end
\* The model follows the handlers' reads and writes of file_path,
\* summary_result, the three buttons and the status label.  The contents of
\* the two text boxes and the progress bar are written but never read by a
\* handler and are left out.  Calls of Tk from the worker thread are taken
\* to be handed over to the main loop, as a threaded Tcl does.

\* The files the dialog can return, and what extract_text reads from each.
Files == {"f1", "f2"}
FileText(f) == IF f = "f1" THEN <<"a", "a", NL, "a", "a">> ELSE <<"a">>

\* The output streams of the backend process explored by GuiSpec.
GuiStreams == {<<>>, <<SP>>, <<"x">>}

Callback(kind, arg) == [kind |-> kind, arg |-> arg]

\* update_ui(func): self.after(0, func) if the window exists
update_ui(queue, func) ==
  IF window_exists THEN Append(queue, func) ELSE queue

\* The locals of one thread running run_summarization; a thread that has
\* ended keeps none (Ended), only the record of how its run went: the file it
\* read, whether it failed, and the summary summarize returned to it.
NewWorker ==
  [pc |-> "extract", file |-> "", failed |-> FALSE,
   run |-> NewRun(<<>>, GuiMaxChars, TRUE)]

Ended(worker) ==
  [worker EXCEPT
     !.pc = "finished",
     !.run = [NewRun(<<>>, GuiMaxChars, TRUE) EXCEPT !.result = worker.run.result]]

SetWorker(w, rec) == workers' = [workers EXCEPT ![w] = rec]

\* Mutation of BrowseFile: the Export button is left as it is.
BrowseFileKeepsExport ==
  /\ window_exists
  /\ browse_button = "normal"
  /\ \E choice \in Files \cup {""}, loaded \in BOOLEAN :
       IF choice # ""
       THEN /\ file_path' = choice
            /\ status_label' = IF loaded THEN "File loaded"
                               ELSE "Error occurred"
            /\ UNCHANGED <<pipeline_vars, window_exists, summary_result,
                           summarize_button, browse_button, export_button,
                           workers, after_queue, exported>>
       ELSE /\ loaded
            /\ UNCHANGED vars

\* browse_file: the dialog returns choice ("" when cancelled); extract_text
\* of the chosen file succeeds (loaded) or raises.
BrowseFile ==
  /\ window_exists
  /\ browse_button = "normal"
  /\ \E choice \in Files \cup {""}, loaded \in BOOLEAN :
       IF choice # ""
       THEN /\ file_path' = choice
            /\ export_button' = "disabled"
            /\ status_label' = IF loaded THEN "File loaded"
                               ELSE "Error occurred"
            /\ UNCHANGED <<pipeline_vars, window_exists, summary_result,
                           summarize_button, browse_button, workers,
                           after_queue, exported>>
       ELSE /\ loaded
            /\ UNCHANGED vars

\* Mutation of StartSummarization: the buttons are left enabled.
StartSummarizationKeepsButtons ==
  /\ window_exists
  /\ summarize_button = "normal"
  /\ Len(workers) < MaxRuns
  /\ IF file_path = ""
     THEN /\ status_label' = "Error occurred"
          /\ UNCHANGED <<summarize_button, browse_button, workers>>
     ELSE /\ status_label' = "Processing..."
          /\ workers' = Append(workers, NewWorker)
          /\ UNCHANGED <<summarize_button, browse_button>>
  /\ UNCHANGED <<pipeline_vars, window_exists, file_path, summary_result,
                 export_button, after_queue, exported>>

\* start_summarization
StartSummarization ==
  /\ window_exists
  /\ summarize_button = "normal"
  /\ Len(workers) < MaxRuns
  /\ IF file_path = ""
     THEN /\ status_label' = "Error occurred"
          /\ UNCHANGED <<summarize_button, browse_button, workers>>
     ELSE /\ summarize_button' = "disabled"
          /\ browse_button' = "disabled"
          /\ status_label' = "Processing..."
          /\ workers' = Append(workers, NewWorker)
  /\ UNCHANGED <<pipeline_vars, window_exists, file_path, summary_result,
                 export_button, after_queue, exported>>

\* export_summary: no summary (None or ""), or the save dialog is cancelled,
\* or the summary is written, or writing raises.
ExportSummary ==
  /\ window_exists
  /\ export_button = "normal"
  /\ IF summary_result = <<>> \/ summary_result = << <<>> >>
     THEN /\ status_label' = "Error occurred"
          /\ UNCHANGED exported
     ELSE \E outcome \in {"cancelled", "written", "raises"} :
            /\ exported' = IF outcome = "written"
                           THEN <<[file |-> file_path,
                                   summary |-> summary_result[1]]>>
                           ELSE exported
            /\ status_label' = CASE outcome = "cancelled" -> status_label
                                 [] outcome = "written" -> "Summary exported"
                                 [] outcome = "raises" -> "Error occurred"
  /\ UNCHANGED <<pipeline_vars, window_exists, file_path, summary_result,
                 summarize_button, browse_button, export_button, workers,
                 after_queue>>

\* The user closes the window: the main loop ends and the process with it
\* (the worker threads are daemons).
CloseWindow ==
  /\ window_exists
  /\ window_exists' = FALSE
  /\ UNCHANGED <<pipeline_vars, file_path, summary_result, summarize_button,
                 browse_button, export_button, status_label, workers,
                 after_queue, exported>>

\* A thread runs while the process does; what no step of a worker changes.
WorkerUnchanged ==
  /\ window_exists
  /\ UNCHANGED <<pipeline_vars, window_exists, file_path, summarize_button,
                 browse_button, export_button, status_label, exported>>

\* run_summarization: raw_text = extract_text(self.file_path) returns
WorkerExtract(w) ==
  /\ workers[w].pc = "extract"
  /\ SetWorker(w, [workers[w] EXCEPT
       !.pc = "summarize", !.file = file_path,
       !.run = NewRun(FileText(file_path), GuiMaxChars, TRUE)])
  /\ UNCHANGED <<summary_result, after_queue>>
  /\ WorkerUnchanged

\* run_summarization: extract_text(self.file_path) raises
WorkerExtractFails(w) ==
  /\ workers[w].pc = "extract"
  /\ SetWorker(w, [workers[w] EXCEPT
       !.pc = "except", !.file = file_path, !.failed = TRUE])
  /\ UNCHANGED <<summary_result, after_queue>>
  /\ WorkerUnchanged

InSummarize(w, pc) == workers[w].pc = "summarize" /\ workers[w].run.pc = pc

\* summarize, called by the worker: chunks = chunk_text(text)
WorkerChunk(w) ==
  /\ InSummarize(w, "start")
  /\ SetWorker(w, [workers[w] EXCEPT !.run = SummarizeChunk(@)])
  /\ UNCHANGED <<summary_result, after_queue>>
  /\ WorkerUnchanged

\* summarize, called by the worker: update_status(msg) hands the message to
\* the main loop.
WorkerProgress(w) ==
  /\ workers[w].pc = "summarize"
  /\ HasNext(workers[w].run)
  /\ SetWorker(w, [workers[w] EXCEPT !.run = Notify(@)])
  /\ after_queue' = update_ui(after_queue, Callback("status", <<>>))
  /\ UNCHANGED summary_result
  /\ WorkerUnchanged

WorkerBackendStart(w) ==
  /\ InSummarize(w, "call")
  /\ SetWorker(w, [workers[w] EXCEPT !.run = InvokeStart(@)])
  /\ UNCHANGED <<summary_result, after_queue>>
  /\ WorkerUnchanged

WorkerBackendStartFails(w) ==
  /\ InSummarize(w, "call")
  /\ SetWorker(w, [workers[w] EXCEPT !.run = InvokeFails(@)])
  /\ UNCHANGED <<summary_result, after_queue>>
  /\ WorkerUnchanged

WorkerBackendReturn(w) ==
  /\ InSummarize(w, "invoking")
  /\ \E out \in GuiStreams, err \in GuiStreams :
       SetWorker(w, [workers[w] EXCEPT
         !.run = InvokeReturn(InvokeExit(@), summarize_with_ollama(out, err))])
  /\ UNCHANGED <<summary_result, after_queue>>
  /\ WorkerUnchanged

WorkerSummarizeReturn(w) ==
  /\ workers[w].pc = "summarize"
  /\ workers[w].run.pc = "loop"
  /\ ~HasNext(workers[w].run)
  /\ SetWorker(w, [workers[w] EXCEPT !.run = SummarizeReturn(@)])
  /\ UNCHANGED <<summary_result, after_queue>>
  /\ WorkerUnchanged

\* run_summarization: self.summary_result = summary
WorkerStore(w) ==
  /\ InSummarize(w, "done")
  /\ summary_result' = workers[w].run.result
  /\ SetWorker(w, [workers[w] EXCEPT !.pc = "publish"])
  /\ UNCHANGED after_queue
  /\ WorkerUnchanged

\* run_summarization: self.update_ui(lambda: self.update_summary_result(summary))
WorkerPublish(w) ==
  /\ workers[w].pc = "publish"
  /\ after_queue' = update_ui(after_queue,
                              Callback("result", workers[w].run.result[1]))
  /\ SetWorker(w, [workers[w] EXCEPT !.pc = "finally"])
  /\ UNCHANGED summary_result
  /\ WorkerUnchanged

\* run_summarization: except Exception as e: self.update_ui(lambda: show_error)
WorkerExcept(w) ==
  /\ \/ workers[w].pc = "except"
     \/ InSummarize(w, "raised")
  /\ after_queue' = update_ui(after_queue, Callback("error", <<>>))
  /\ SetWorker(w, [workers[w] EXCEPT !.pc = "finally", !.failed = TRUE])
  /\ UNCHANGED summary_result
  /\ WorkerUnchanged

\* Mutation of WorkerFinally: the controls are restored after a success only.
WorkerFinallyOnSuccess(w) ==
  /\ workers[w].pc = "finally"
  /\ after_queue' = IF workers[w].failed THEN after_queue
                    ELSE update_ui(after_queue, Callback("restore", <<>>))
  /\ SetWorker(w, Ended(workers[w]))
  /\ UNCHANGED summary_result
  /\ WorkerUnchanged

\* run_summarization: finally: self.update_ui(self.restore_ui_state)
WorkerFinally(w) ==
  /\ workers[w].pc = "finally"
  /\ after_queue' = update_ui(after_queue, Callback("restore", <<>>))
  /\ SetWorker(w, Ended(workers[w]))
  /\ UNCHANGED summary_result
  /\ WorkerUnchanged

\* The main loop runs the oldest callback of self.after(0, ...):
\*   status   the lambda of update_status: a line in the summary text box
\*   result   update_summary_result(summary)
\*   error    the lambda of the except clause: show_error(...), or a NameError
\*            when the clause has already unbound e (Tk reports it and goes on)
\*   restore  restore_ui_state()
Dispatch ==
  /\ window_exists
  /\ after_queue # <<>>
  /\ after_queue' = Tail(after_queue)
  /\ LET cb == Head(after_queue) IN
     CASE cb.kind = "status" ->
            UNCHANGED <<summarize_button, browse_button, export_button,
                        status_label>>
       [] cb.kind = "result" ->
            /\ export_button' = "normal"
            /\ status_label' = "Summary completed"
            /\ UNCHANGED <<summarize_button, browse_button>>
       [] cb.kind = "error" ->
            /\ status_label' \in {"Error occurred", status_label}
            /\ UNCHANGED <<summarize_button, browse_button, export_button>>
       [] cb.kind = "restore" ->
            /\ summarize_button' = "normal"
            /\ browse_button' = "normal"
            /\ UNCHANGED <<export_button, status_label>>
  /\ UNCHANGED <<pipeline_vars, window_exists, file_path, summary_result,
                 workers, exported>>

GuiInit ==
  /\ run = NewRun(<<>>, GuiMaxChars, FALSE)
  /\ proc = <<>>
  /\ GuiStart

GuiNext ==
  \/ BrowseFile
  \/ StartSummarization
  \/ ExportSummary
  \/ CloseWindow
  \/ Dispatch
  \/ \E w \in DOMAIN workers : WorkerExtract(w)
  \/ \E w \in DOMAIN workers : WorkerExtractFails(w)
  \/ \E w \in DOMAIN workers : WorkerChunk(w)
  \/ \E w \in DOMAIN workers : WorkerProgress(w)
  \/ \E w \in DOMAIN workers : WorkerBackendStart(w)
  \/ \E w \in DOMAIN workers : WorkerBackendStartFails(w)
  \/ \E w \in DOMAIN workers : WorkerBackendReturn(w)
  \/ \E w \in DOMAIN workers : WorkerSummarizeReturn(w)
  \/ \E w \in DOMAIN workers : WorkerStore(w)
  \/ \E w \in DOMAIN workers : WorkerPublish(w)
  \/ \E w \in DOMAIN workers : WorkerExcept(w)
  \/ \E w \in DOMAIN workers : WorkerFinally(w)

\* The thread scheduler runs a worker that can take a step, except where the
\* step waits for the backend process (which may never end); the main loop
\* runs the callbacks it was given.
GuiFairness ==
  /\ WF_vars(Dispatch)
  /\ \A w \in 1..MaxRuns :
       /\ WF_vars(w \in DOMAIN workers /\ WorkerExcept(w))
       /\ WF_vars(w \in DOMAIN workers /\ WorkerFinally(w))

GuiSpec == GuiInit /\ [][GuiNext]_vars /\ GuiFairness

\* ----------------------------------------------------------------- claims
HasNL(s) == FindNL(s, 1) # 0

\* C1: once chunk_text has run, joining the segments with one newline between
\* consecutive segments gives back the text exactly, and the segment sequence
\* is non-empty whenever the text is non-empty.
C1_SegmentationCoverage ==
  run.pc # "start" =>
    /\ Join(run.chunks, <<NL>>) = run.text
    /\ (run.text # <<>> => run.chunks # <<>>)

\* C1 witness: a text cut into several segments, one of them of several lines.
C1_Witness ==
  /\ run.pc # "start"
  /\ Len(run.chunks) >= 2
  /\ \E i \in DOMAIN run.chunks : HasNL(run.chunks[i])

\* C2: every segment, newlines between its lines included, is at most
\* max_chars characters long, or is one single line longer than max_chars.
C2_BudgetRespect ==
  run.pc # "start" =>
    \A i \in DOMAIN run.chunks :
      \/ Len(run.chunks[i]) <= run.max_chars
      \/ ~HasNL(run.chunks[i]) /\ Len(run.chunks[i]) > run.max_chars

\* C3: for the empty text the segment sequence is empty, the backend invoker
\* and the progress callback are never called, and summarize returns "".
C3_EmptyInputShortcut ==
  (run.text = <<>> /\ run.pc # "start") =>
    /\ run.chunks = <<>>
    /\ run.invoked = <<>>
    /\ run.progress = <<>>
    /\ (run.pc = "done" => run.result = << <<>> >>)

\* C4: after a successful run there is one partial summary per segment, the
\* i-th is what the backend invoker returned for the i-th segment, and the
\* value returned is the partial summaries joined in order with "\n\n".
C4_OrderPreservation ==
  run.pc = "done" =>
    /\ Len(run.summaries) = Len(run.chunks)
    /\ Len(run.calls) = Len(run.chunks)
    /\ \A i \in DOMAIN run.chunks :
         /\ run.calls[i].segment = run.chunks[i]
         /\ run.summaries[i] = run.calls[i].output
    /\ run.result = <<Join(run.summaries, <<NL, NL>>)>>

\* C4 witness: a finished run over three segments with differing summaries.
C4_Witness ==
  /\ run.pc = "done"
  /\ Len(run.chunks) = 3
  /\ run.summaries[1] # run.summaries[2]
  /\ run.summaries[2] # run.summaries[3]

\* C5: with a callback, the k-th notification reports (k, N); notification k
\* comes before the backend invocation for segment k begins and after the
\* invocation for segment k-1 has returned; a run that returns has notified
\* exactly N times.
C5_ProgressMonotonic ==
  (run.has_callback /\ run.pc # "start") =>
    /\ \A k \in DOMAIN run.progress : run.progress[k] = <<k, Len(run.chunks)>>
    /\ \A j \in DOMAIN run.invoked : run.invoked[j] = j
    /\ Len(run.invoked) <= Len(run.progress)
    /\ Len(run.progress) <= Len(run.calls) + 1
    /\ (run.pc = "done" => Len(run.progress) = Len(run.chunks))

\* C5 witness: a run with a callback over three segments has returned.
C5_Witness ==
  /\ run.has_callback
  /\ run.pc = "done"
  /\ Len(run.chunks) = 3

\* C6: an exception of the progress callback is discarded where it is raised:
\* it never ends the run.
C6_CallbackFailureDiscarded ==
  run.error = "callback" => run.pc # "raised"

\* C7: when the backend process cannot be started for segment k, the run ends
\* with that error: the invoker was called for segments 1..k only, nothing was
\* reported for a segment after k, and nothing is returned.
C7_InvocationFailureAborts ==
  run.error = "start" =>
    /\ run.pc = "raised"
    /\ run.result = <<>>
    /\ run.invoked = [j \in 1..run.idx |-> j]
    /\ Len(run.calls) = run.idx - 1
    /\ Len(run.progress) <= run.idx

\* C7 witness: the start fails on segment 2 of 3.
C7_Witness ==
  /\ run.error = "start"
  /\ run.idx = 2
  /\ Len(run.chunks) = 3

\* C8: summarize_with_ollama returns the trimmed stdout when that is
\* non-empty and the trimmed stderr otherwise, whatever the exit status.
C8_ResultSelection ==
  proc # <<>> =>
    proc[1].output = IF Strip(proc[1].stdout) # <<>>
                     THEN Strip(proc[1].stdout)
                     ELSE Strip(proc[1].stderr)

\* A background run has just failed: extract_text or summarize raised.
RunFailed ==
  \E w \in DOMAIN workers :
    workers[w].pc = "except" \/ InSummarize(w, "raised")

ControlsIdle == summarize_button = "normal" /\ browse_button = "normal"

\* C9: in the front end, a failure of the background run (extraction error or
\* backend invocation error) is eventually followed by the Summarize and
\* Browse buttons being enabled again, as long as the window exists.
C9_ControlsRestoredAfterFailure ==
  RunFailed ~> (ControlsIdle \/ ~window_exists)

\* C9 witness: a run has failed and ended, and the controls are enabled again.
C9_Witness ==
  /\ window_exists
  /\ ControlsIdle
  /\ after_queue = <<>>
  /\ \E w \in DOMAIN workers : workers[w].pc = "finished" /\ workers[w].failed

\* C10: at most one run is executing and at most one backend invocation is in
\* progress at any time; within a run the invocation for segment i+1 starts
\* only after the one for segment i has returned; while a run is executing the
\* Summarize button is disabled, so no second run can be started.
C10_OneInvocationAtATime ==
  /\ Cardinality({w \in DOMAIN workers : workers[w].pc # "finished"}) <= 1
  /\ Cardinality({w \in DOMAIN workers : InSummarize(w, "invoking")}) <= 1
  /\ \A w \in DOMAIN workers :
       LET r == workers[w].run IN
       /\ workers[w].pc # "finished" => summarize_button = "disabled"
       /\ \A j \in DOMAIN r.invoked : r.invoked[j] = j
       /\ Len(r.invoked) <= Len(r.calls) + 1
       /\ r.pc = "invoking" => Len(r.invoked) = Len(r.calls) + 1

\* C10 witness: after a first run has ended, the second run is waiting for
\* the backend on its second segment.
C10_Witness ==
  /\ Len(workers) = 2
  /\ workers[1].pc = "finished"
  /\ InSummarize(2, "invoking")
  /\ Len(workers[2].run.invoked) = 2

\* The runs that have succeeded: summarize returned and run_summarization
\* stored the summary in self.summary_result.
SucceededRuns ==
  {w \in DOMAIN workers :
     /\ ~workers[w].failed
     /\ workers[w].pc \in {"publish", "finally", "finished"}}

\* The most recent of them (the threads are numbered in the order started).
LastSucceeded ==
  CHOOSE w \in SucceededRuns : \A v \in SucceededRuns : v <= w

\* C11: whenever the Export button is enabled, some run has succeeded,
\* summary_result is the final summary summarize returned to the most recent
\* run that succeeded, and that run read the file now selected in file_path.
C11_ExportMatchesSelectedFile ==
  export_button = "normal" =>
    /\ SucceededRuns # {}
    /\ summary_result = workers[LastSucceeded].run.result
    /\ summary_result # <<>>
    /\ workers[LastSucceeded].file = file_path

\* C11 witness: a run on one file succeeded, another file was selected, a run
\* on it succeeded and enabled Export, and a later run on it failed.
C11_Witness ==
  /\ export_button = "normal"
  /\ Len(workers) = 3
  /\ \A w \in 1..3 : workers[w].pc = "finished"
  /\ ~workers[1].failed /\ ~workers[2].failed /\ workers[3].failed
  /\ workers[1].file # workers[2].file
  /\ workers[1].run.result # workers[2].run.result
  /\ file_path = workers[2].file

====
